---- MODULE Spec2Model ----
(***************************************************************************)
(* A model of the multilingual campus chatbot:                             *)
(*   - ConversationLogger (conversation_logger.py): the sqlite store of    *)
(*     sessions, conversations (turns) and daily_stats, written by         *)
(*     concurrent log_conversation calls, each on its own connection;      *)
(*   - ChatbotEngine (chatbot_engine.py): keyword / similarity matching,   *)
(*     response selection and the in-memory session contexts;              *)
(*   - LanguageProcessor (language_processor.py): detect_language.         *)
(*                                                                         *)
(* Real numbers (confidences, similarity ratios, the running average) are  *)
(* exact rationals <<n, d>> with d > 0.  Texts are sequences of            *)
(* one-character strings.  A date is the number of its day; a timestamp    *)
(* text is <<day, separator, time of day>>, the separator being the code   *)
(* point of the character between the date and the time.                   *)
(***************************************************************************)
EXTENDS Integers, Sequences, FiniteSets, TLC

VARIABLES
    \* ---- the sqlite database (conversation_logger.py) ----
    sessions,          \* table sessions: session_id -> row
    conversations,     \* table conversations: sequence of rows, in id order
    daily_stats,       \* table daily_stats: date -> row
    \* ---- the log_conversation calls in flight ----
    pc,                \* per call: where it stands
    args,              \* per call: its arguments
    row,               \* per call: the row fetched at line 107
    sqlite_sequence,   \* the largest id conversations ever held
    now,               \* the clock: <<day, time of day>>, UTC
    cleanup_pc,        \* "idle" before cleanup_old_logs ran, "done" after
    cutoff_date,       \* the cutoff the cleanup computed at line 292
    logged,            \* history: every row ever inserted in conversations
    reply,             \* what the last read returned, if no write ran since
    \* ---- ChatbotEngine ----
    session_contexts,  \* self.session_contexts: session_id -> context
    message,           \* the message text handed to process_message
    language,          \* the language handed to process_message
    engine_pc,         \* "call" before process_message ran, "done" after
    result,            \* the dictionary process_message returned
    returned,          \* history: the process_message calls, as they returned
    \* ---- the application (BACKEND/main.py) and its engine ----
    kb_file,           \* what ../data/knowledge_base.json is at start-up
    knowledge_base,    \* self.knowledge_base: which definition it holds
    chat_pc,           \* per request: where chat() stands
    request,           \* per request: the ChatMessage
    response_data,     \* per request: what process_message returned
    http,              \* per request: the HTTP response
    running,           \* the request the event loop runs, 0 for none
    served,            \* history: requests, as process_message returned
    \* ---- LanguageProcessor.detect_language ----
    text,              \* the text handed to detect_language
    guess,             \* what langdetect.detect does on that text
    detect_pc,         \* "call" before detect_language ran, "done" after
    detected           \* what detect_language returned (or raised)

storeVars  == <<sessions, conversations, daily_stats, pc, args, row,
               sqlite_sequence, now, cleanup_pc, cutoff_date, logged, reply>>
chatVars   == <<kb_file, knowledge_base, chat_pc, request, response_data,
               http, running, served>>
engineVars == <<session_contexts, message, language, engine_pc, result,
               returned, chatVars>>
detectVars == <<text, guess, detect_pc, detected>>
vars == <<storeVars, engineVars, detectVars>>

(***************************************************************************)
(* Bounds of the model.                                                    *)
(***************************************************************************)
MaxCalls == 3      \* log_conversation calls in one run
MaxLen == 4        \* characters of a message handed to process_message
MaxText == 4       \* characters of a text handed to detect_language
MaxDay == 2        \* days the clock runs over
MaxTurns == 2      \* log_conversation calls in a run of several days
MaxChats == 2      \* requests to POST /chat in one run
MaxProcess == 3    \* process_message calls on one engine in one run

(***************************************************************************)
(* Rationals.                                                              *)
(***************************************************************************)
RECURSIVE Gcd(_, _)
Gcd(a, b) == IF b = 0 THEN a ELSE Gcd(b, a % b)

Norm(q) ==
    IF q[1] = 0 THEN <<0, 1>>
    ELSE LET g == Gcd(q[1], q[2]) IN <<q[1] \div g, q[2] \div g>>

RatLess(p, q) == p[1] * q[2] < q[1] * p[2]
RatEq(p, q) == p[1] * q[2] = q[1] * p[2]
RatAdd(p, q) == Norm(<<p[1] * q[2] + q[1] * p[2], p[2] * q[2]>>)
RatMulInt(p, n) == Norm(<<p[1] * n, p[2]>>)
RatDivInt(p, n) == Norm(<<p[1], p[2] * n>>)

None == "None"     \* Python's None, where a string is expected
Raised == "raised" \* the call ended with an exception it did not catch

\* the element of a one-element set: Only({e}) is e, evaluated once
Only(S) == CHOOSE x \in S : TRUE

(***************************************************************************)
(* ConversationLogger.                                                     *)
(***************************************************************************)
SessionIds == {"s1", "s2"}
Calls == 1 .. MaxCalls

\* ---- dates and timestamps ----
\* The clock runs over the days 1 .. MaxDay, each with a morning and an
\* evening; the process runs in UTC, so that date.today() and datetime.now()
\* agree with sqlite's CURRENT_TIMESTAMP.
TimesOfDay == {0, 1}

\* CURRENT_TIMESTAMP: 'YYYY-MM-DD HH:MM:SS', a space after the date
CURRENT_TIMESTAMP(clock) == <<clock[1], 32, clock[2]>>

\* datetime.isoformat(): 'YYYY-MM-DDTHH:MM:SS', a "T" after the date
isoformat(dt) == <<dt[1], 84, dt[2]>>

\* sqlite's DATE(text)
DATE(ts) == ts[1]

\* sqlite's text < text: fields of fixed width compare as their numbers, the
\* separators as their code points
TextLess(x, y) ==
    \/ x[1] < y[1]
    \/ x[1] = y[1] /\ x[2] < y[2]
    \/ x[1] = y[1] /\ x[2] = y[2] /\ x[3] < y[3]

\* date.today().isoformat() (line 100)
today == now[1]

\* The arguments the calls are made with.
TurnInputs ==
    { [session_id |-> "s1", user_message |-> "fee?", bot_response |-> "fees",
       language |-> "en", confidence |-> <<4, 5>>,
       category |-> "fees", needs_human |-> FALSE],
      [session_id |-> "s1", user_message |-> "xyz", bot_response |-> "contact",
       language |-> "hi", confidence |-> <<2, 5>>,
       category |-> None, needs_human |-> TRUE],
      [session_id |-> "s2", user_message |-> "test", bot_response |-> "exams",
       language |-> "en", confidence |-> <<2, 5>>,
       category |-> "exams", needs_human |-> FALSE] }

NoArgs == [session_id |-> "", user_message |-> "", bot_response |-> "",
           language |-> "", confidence |-> <<0, 1>>,
           category |-> None, needs_human |-> FALSE]

EmptyMap == [k \in {} |-> 0]

\* cursor.fetchone() returned None at line 107
NoRowFetched ==
    [found |-> FALSE, date |-> 0,
     total_conversations |-> 0, total_sessions |-> 0,
     languages_breakdown |-> EmptyMap, categories_breakdown |-> EmptyMap,
     avg_confidence |-> <<0, 1>>, human_handoff_count |-> 0]

\* a count that starts again at 1
IncrementedFromOne(map, key) ==
    [k \in DOMAIN map \cup {key} |-> IF k = key THEN 1 ELSE map[k]]

\* dict.get(key, 0) + 1 stored back under key
Incremented(map, key) ==
    [k \in DOMAIN map \cup {key} |->
        IF k = key THEN (IF key \in DOMAIN map THEN map[key] ELSE 0) + 1
        ELSE map[k]]

\* The test of line 79: json_extract(languages_used, '$') LIKE '%' || ? || '%'.
\* The serialized list holds the code when the code occurs inside the text of
\* one of its elements.
CodeOccursIn(code, element) ==
    \/ code = element
    \/ <<code, element>> \in {<<"e", "en">>, <<"n", "en">>, <<"h", "hi">>,
                              <<"i", "hi">>}

LikeMatches(languages_used, code) ==
    \E i \in 1 .. Len(languages_used) : CodeOccursIn(code, languages_used[i])

\* INSERT OR IGNORE in the place of the upsert
UpsertSessionInsertOnly(tbl, sid, lang, ts) ==
    IF sid \in DOMAIN tbl THEN tbl
    ELSE [s \in DOMAIN tbl \cup {sid} |->
            IF s = sid
            THEN [created_at |-> ts, updated_at |-> ts,
                  message_count |-> 1, languages_used |-> <<lang>>]
            ELSE tbl[s]]

\* INSERT INTO sessions ... ON CONFLICT(session_id) DO UPDATE (lines 72-83);
\* ts is CURRENT_TIMESTAMP, the default of created_at and updated_at
UpsertSession(tbl, sid, lang, ts) ==
    IF sid \in DOMAIN tbl
    THEN [tbl EXCEPT ![sid] =
            [created_at |-> @.created_at,
             updated_at |-> ts,
             message_count |-> @.message_count + 1,
             languages_used |->
                IF LikeMatches(@.languages_used, lang)
                THEN @.languages_used
                ELSE Append(@.languages_used, lang)]]
    ELSE [s \in DOMAIN tbl \cup {sid} |->
            IF s = sid
            THEN [created_at |-> ts, updated_at |-> ts,
                  message_count |-> 1, languages_used |-> <<lang>>]
            ELSE tbl[s]]

\* the row of lines 86-90; id is AUTOINCREMENT, timestamp CURRENT_TIMESTAMP
ConversationRow(seq, a, ts) ==
    [id |-> seq + 1, session_id |-> a.session_id, timestamp |-> ts,
     user_message |-> a.user_message, bot_response |-> a.bot_response,
     language |-> a.language, confidence |-> a.confidence,
     category |-> a.category, needs_human |-> a.needs_human]

\* INSERT INTO conversations (lines 86-90)
InsertConversation(tbl, seq, a, ts) == Append(tbl, ConversationRow(seq, a, ts))

NoReply == [op |-> "none", arg |-> <<>>, value |-> <<>>]

\* The first transaction of log_conversation, lines 68-92: the session upsert
\* and the conversation insert, committed together at line 92.
LogTurn(c, a) ==
    /\ pc[c] = "idle"
    /\ \A d \in Calls : d < c => pc[d] # "idle"
    /\ sessions' = UpsertSession(sessions, a.session_id, a.language,
                                 CURRENT_TIMESTAMP(now))
    /\ conversations' = InsertConversation(conversations, sqlite_sequence, a,
                                           CURRENT_TIMESTAMP(now))
    /\ sqlite_sequence' = sqlite_sequence + 1
    /\ logged' = Append(logged, ConversationRow(sqlite_sequence, a,
                                                CURRENT_TIMESTAMP(now)))
    /\ args' = [args EXCEPT ![c] = a]
    /\ pc' = [pc EXCEPT ![c] = "select"]
    /\ reply' = NoReply
    /\ UNCHANGED <<daily_stats, row, now, cleanup_pc, cutoff_date>>

\* _update_daily_stats, lines 100-107: a new connection; the SELECT runs
\* outside any transaction (sqlite3 opens one only before INSERT / UPDATE),
\* and fetchone() leaves no read lock behind.
SelectDailyStats(c) ==
    /\ pc[c] = "select"
    /\ row' = [row EXCEPT ![c] =
                IF today \in DOMAIN daily_stats
                THEN [found |-> TRUE, date |-> today] @@ daily_stats[today]
                ELSE [NoRowFetched EXCEPT !.date = today]]
    /\ pc' = [pc EXCEPT ![c] = "write"]
    /\ UNCHANGED <<sessions, conversations, daily_stats, args, sqlite_sequence,
                   now, cleanup_pc, cutoff_date, logged, reply>>

\* lines 111-120: the new values, computed from the row fetched
UpdatedRow(r, a) ==
    [total_conversations |-> r.total_conversations + 1,
     total_sessions |-> r.total_sessions,
     languages_breakdown |-> Incremented(r.languages_breakdown, a.language),
     categories_breakdown |->
        IF a.category # None
        THEN Incremented(r.categories_breakdown, a.category)
        ELSE r.categories_breakdown,
     avg_confidence |->
        RatDivInt(RatAdd(RatMulInt(r.avg_confidence, r.total_conversations),
                         a.confidence),
                  r.total_conversations + 1),
     human_handoff_count |->
        r.human_handoff_count + (IF a.needs_human THEN 1 ELSE 0)]

\* lines 134-143: the first row of a date
FirstRow(a) ==
    [total_conversations |-> 1,
     total_sessions |-> 0,
     languages_breakdown |-> Incremented(EmptyMap, a.language),
     categories_breakdown |->
        IF a.category # None THEN Incremented(EmptyMap, a.category)
        ELSE EmptyMap,
     avg_confidence |-> a.confidence,
     human_handoff_count |-> IF a.needs_human THEN 1 ELSE 0]

\* _update_daily_stats, lines 109-145: the second transaction, on the date
\* computed at line 100.  The UPDATE writes the values computed from the
\* fetched row, whatever the table holds by now (no row, when the date's row
\* was deleted meanwhile); the INSERT of a date that has a row by now violates
\* the PRIMARY KEY and raises sqlite3.IntegrityError out of log_conversation.
WriteDailyStats(c) ==
    /\ pc[c] = "write"
    /\ IF row[c].found
       THEN /\ daily_stats' =
                 IF row[c].date \in DOMAIN daily_stats
                 THEN [daily_stats EXCEPT
                          ![row[c].date] = UpdatedRow(row[c], args[c])]
                 ELSE daily_stats
            /\ pc' = [pc EXCEPT ![c] = "done"]
       ELSE IF row[c].date \in DOMAIN daily_stats
            THEN /\ daily_stats' = daily_stats
                 /\ pc' = [pc EXCEPT ![c] = "failed"]
            ELSE /\ daily_stats' =
                      [d \in DOMAIN daily_stats \cup {row[c].date} |->
                          IF d = row[c].date THEN FirstRow(args[c])
                          ELSE daily_stats[d]]
                 /\ pc' = [pc EXCEPT ![c] = "done"]
    /\ reply' = NoReply
    /\ UNCHANGED <<sessions, conversations, args, row, sqlite_sequence, now,
                   cleanup_pc, cutoff_date, logged>>

\* ---- the clock ----
\* from the morning to the evening, from the evening to the next morning
Tick ==
    /\ now[1] < MaxDay \/ now[2] = 0
    /\ now' = IF now[2] = 0 THEN <<now[1], 1>> ELSE <<now[1] + 1, 0>>
    /\ UNCHANGED <<sessions, conversations, daily_stats, pc, args, row,
                   sqlite_sequence, cleanup_pc, cutoff_date, logged, reply>>

\* ---- cleanup_old_logs (lines 290-317) ----
\* the values of days_to_keep
RetentionDays == {0, 1}

\* line 292: datetime.now() - timedelta(days=days_to_keep)
CutoffOf(clock, days_to_keep) == <<clock[1] - days_to_keep, clock[2]>>

\* lines 298-301: WHERE timestamp < ?, with cutoff_date.isoformat()
OlderThanCutoff(t, cutoff) == TextLess(t.timestamp, isoformat(cutoff))

\* a cleanup that keeps every session
SessionsKeptAll(tbl) == SessionIds

\* lines 304-309: the session ids of SELECT DISTINCT session_id
SessionsWithTurns(tbl) == {tbl[i].session_id : i \in 1 .. Len(tbl)}

\* lines 312-315: WHERE date < ?, with cutoff_date.date().isoformat()
DateBeforeCutoff(d, cutoff) == d < cutoff[1]

Restrict(f, S) == [x \in S |-> f[x]]

\* One transaction: the three DELETEs are committed together at line 317.
cleanup_old_logs(days_to_keep) ==
    /\ cleanup_pc = "idle"
    /\ \E cutoff \in {CutoffOf(now, days_to_keep)} :
       \E kept \in {SelectSeq(conversations,
                              LAMBDA t : ~OlderThanCutoff(t, cutoff))} :
          /\ cutoff_date' = cutoff
          /\ conversations' = kept
          /\ sessions' = Restrict(sessions,
                            DOMAIN sessions \cap SessionsWithTurns(kept))
          /\ daily_stats' = Restrict(daily_stats,
                {d \in DOMAIN daily_stats : ~DateBeforeCutoff(d, cutoff)})
    /\ cleanup_pc' = "done"
    /\ reply' = NoReply
    /\ UNCHANGED <<pc, args, row, sqlite_sequence, now, logged>>

\* ---- the reads ----
\* ORDER BY timestamp ASC / DESC: whether row x sorts strictly before row y
SortsBefore(x, y, desc) ==
    IF desc THEN TextLess(y.timestamp, x.timestamp)
    ELSE TextLess(x.timestamp, y.timestamp)

\* one more row into the sorted rows, after the rows it does not sort before
\* (sqlite 3.40.1 keeps rows of equal timestamp in the order of the scan)
InsertSorted(sorted, x, desc) ==
    LET k == Cardinality({i \in 1 .. Len(sorted) :
                             ~SortsBefore(x, sorted[i], desc)})
    IN  SubSeq(sorted, 1, k) \o <<x>> \o SubSeq(sorted, k + 1, Len(sorted))

RECURSIVE OrderByTimestamp(_, _)
OrderByTimestamp(rows, desc) ==
    IF rows = <<>> THEN <<>>
    ELSE Only({ InsertSorted(sorted, rows[Len(rows)], desc) :
                sorted \in {OrderByTimestamp(SubSeq(rows, 1, Len(rows) - 1),
                                             desc)} })

\* get_session_info (lines 147-171).  The row selected is s.* (5 columns)
\* and COUNT(c.id): row[4] is languages_used and row[5] the count, so for a
\* session that exists json.loads(row[5]) at line 169 raises TypeError.
SessionInfoOf(tbl, sid) ==
    IF sid \notin DOMAIN tbl THEN None ELSE "TypeError"

\* lines 241-250: the dictionary of a row
HistoryEntry(t) ==
    [id |-> t.id, timestamp |-> t.timestamp,
     user_message |-> t.user_message, bot_response |-> t.bot_response,
     language |-> t.language, confidence |-> t.confidence,
     category |-> t.category, needs_human |-> t.needs_human]

\* the same SELECT with ORDER BY timestamp DESC
ConversationHistoryNewestFirst(tbl, sid) ==
    LET rows == OrderByTimestamp(
                    SelectSeq(tbl, LAMBDA t : t.session_id = sid), TRUE)
    IN  [i \in 1 .. Len(rows) |-> HistoryEntry(rows[i])]

\* lines 231-252: SELECT ... WHERE session_id = ? ORDER BY timestamp ASC
ConversationHistory(tbl, sid) ==
    LET rows == OrderByTimestamp(
                    SelectSeq(tbl, LAMBDA t : t.session_id = sid), FALSE)
    IN  [i \in 1 .. Len(rows) |-> HistoryEntry(rows[i])]

\* lines 190-201 and 271-282: the dictionary of a joined row
LogEntry(t, sess) == [session_id |-> t.session_id,
                      session_start |-> sess[t.session_id].created_at]
                     @@ HistoryEntry(t)

\* BETWEEN with an open upper end
BetweenOpenEnd(d, lo, hi) == lo <= d /\ d < hi

\* sqlite's d BETWEEN lo AND hi
Between(d, lo, hi) == lo <= d /\ d <= hi

\* lines 178-184: conversations JOIN sessions WHERE DATE(c.timestamp) = ?
\* ORDER BY c.timestamp DESC
DailyRows(tbl, sess, date_str) ==
    LET rows == OrderByTimestamp(
                    SelectSeq(tbl, LAMBDA t :
                        /\ t.session_id \in DOMAIN sess
                        /\ DATE(t.timestamp) = date_str), TRUE)
    IN  [i \in 1 .. Len(rows) |-> LogEntry(rows[i], sess)]

\* lines 259-265: conversations JOIN sessions
\* WHERE DATE(c.timestamp) BETWEEN ? AND ? ORDER BY c.timestamp DESC
JoinedRows(tbl, sess, lo, hi) ==
    LET rows == OrderByTimestamp(
                    SelectSeq(tbl, LAMBDA t :
                        /\ t.session_id \in DOMAIN sess
                        /\ Between(DATE(t.timestamp), lo, hi)), TRUE)
    IN  [i \in 1 .. Len(rows) |-> LogEntry(rows[i], sess)]

\* json.dumps(list) and json.loads(text)
JsonDumps(value) == <<"json", value>>
JsonLoads(txt) == txt[2]

\* the dates and the ranges the reads are called with
QueryDates == 1 .. MaxDay

get_session_info(sid) ==
    /\ reply' = [op |-> "get_session_info", arg |-> <<sid>>,
                 value |-> SessionInfoOf(sessions, sid)]
    /\ UNCHANGED <<sessions, conversations, daily_stats, pc, args, row,
                   sqlite_sequence, now, cleanup_pc, cutoff_date, logged>>

get_conversation_history(sid) ==
    /\ reply' = [op |-> "get_conversation_history", arg |-> <<sid>>,
                 value |-> ConversationHistory(conversations, sid)]
    /\ UNCHANGED <<sessions, conversations, daily_stats, pc, args, row,
                   sqlite_sequence, now, cleanup_pc, cutoff_date, logged>>

get_daily_logs(date_str) ==
    /\ reply' = [op |-> "get_daily_logs", arg |-> <<date_str>>,
                 value |-> DailyRows(conversations, sessions, date_str)]
    /\ UNCHANGED <<sessions, conversations, daily_stats, pc, args, row,
                   sqlite_sequence, now, cleanup_pc, cutoff_date, logged>>

export_logs(start_date, end_date) ==
    /\ reply' = [op |-> "export_logs", arg |-> <<start_date, end_date>>,
                 value |-> JsonDumps(JoinedRows(conversations, sessions,
                                                start_date, end_date))]
    /\ UNCHANGED <<sessions, conversations, daily_stats, pc, args, row,
                   sqlite_sequence, now, cleanup_pc, cutoff_date, logged>>

\* ---- GET /sessions/{session_id} (BACKEND/main.py, lines 118-127) ----
\* The HTTPException of line 124 is raised inside the try block, and so is
\* the TypeError of the logger: the except clause of line 126 catches both
\* and raises HTTPException(500) with the text of what it caught.
SessionRouteOutcome(session_info) ==
    IF session_info = "TypeError"
    THEN [status_code |-> 500, detail |-> "str(TypeError)"]
    ELSE IF session_info = None
    THEN [status_code |-> 500, detail |-> "str(HTTPException(404))"]
    ELSE [status_code |-> 200, detail |-> session_info]

route_get_session_info(sid) ==
    /\ reply' = [op |-> "GET /sessions", arg |-> <<sid>>,
                 value |-> SessionRouteOutcome(SessionInfoOf(sessions, sid))]
    /\ UNCHANGED <<sessions, conversations, daily_stats, pc, args, row,
                   sqlite_sequence, now, cleanup_pc, cutoff_date, logged>>

(***************************************************************************)
(* ChatbotEngine.                                                          *)
(***************************************************************************)
\* The characters messages are made of; "F" is the one upper-case letter.
Alphabet == {"f", "e", "s", "t", "h", "i", "F"}

\* str.lower(), character by character (line 142)
LowerChar(ch) == IF ch = "F" THEN "f" ELSE ch
Lower(str) == [i \in 1 .. Len(str) |-> LowerChar(str[i])]

\* The knowledge base loaded at line 12: an instance of the definition read
\* at lines 19-21, shaped as the built-in one of lines 28-97 and cut down to
\* two categories and a few keywords ("fi" stands for the two-character
\* Gujarati keyword of "fees").  "fees" has no "mr" text and "exams" has only
\* a "hi" text, so that both fallbacks of line 182 are exercised.
CategoryOrder == <<"fees", "exams">>

Keywords(category) ==
    CASE category = "fees" -> << <<"f", "e", "e">>, <<"f", "e", "e", "s">>,
                                 <<"f", "i">> >>
      [] category = "exams" -> << <<"t", "e", "s", "t">> >>
      [] category = "greetings" -> << <<"h", "i">> >>

\* The languages a category has a response text in; the text of a category
\* in a language is written <<category, language>>.
ResponseLanguages(category) ==
    CASE category = "fees" -> {"en", "hi"}
      [] category = "exams" -> {"hi"}
      [] category = "greetings" -> {"en", "hi", "mr"}

Contact == [office_hours |-> "9:00 AM - 5:00 PM, Monday to Friday",
            email |-> "info@college.edu"]

GenericText == <<"I'm sorry, I don't understand.">>

\* self.confidence_threshold (line 14), the greeting confidence (line 150),
\* the direct-match score (line 159) and the similarity floor (line 166)
confidence_threshold == <<3, 5>>
GreetingScore == <<9, 10>>
DirectScore == <<4, 5>>
SimilarityFloorLow == <<2, 5>>      \* a floor below the threshold
SimilarityFloor == <<3, 5>>

\* Python's "keyword in message_lower"
IsSubstring(k, m) ==
    \E i \in 0 .. Len(m) - Len(k) : SubSeq(m, i + 1, i + Len(k)) = k

\* ---- difflib.SequenceMatcher(None, a, b).ratio() ----
\* (no junk: isjunk is None, and the automatic junk heuristic needs a second
\* sequence of 200 elements or more)

\* the length of the common run of a[i ..] and b[j ..] inside [.. ahi), [.. bhi)
RECURSIVE RunLength(_, _, _, _, _, _)
RunLength(a, b, i, j, ahi, bhi) ==
    IF i < ahi /\ j < bhi /\ a[i] = b[j]
    THEN 1 + RunLength(a, b, i + 1, j + 1, ahi, bhi)
    ELSE 0

SetMax(S) == CHOOSE x \in S : \A y \in S : y <= x
SetMin(S) == CHOOSE x \in S : \A y \in S : x <= y

\* find_longest_match: the longest block common to a[alo, ahi) and b[blo, bhi);
\* of the longest, the one starting earliest in a, and of those the one
\* starting earliest in b.  <<i, j, size>>, indices from 1.
find_longest_match(a, b, alo, ahi, blo, bhi) ==
    LET size(i, j) == RunLength(a, b, i, j, ahi, bhi)
        sizes == {size(i, j) : i \in alo .. ahi - 1, j \in blo .. bhi - 1}
        best == IF sizes = {} THEN 0 ELSE SetMax(sizes)
    IN  IF best = 0 THEN <<alo, blo, 0>>
        ELSE LET besti == SetMin({i \in alo .. ahi - 1 :
                                    \E j \in blo .. bhi - 1 : size(i, j) = best})
                 bestj == SetMin({j \in blo .. bhi - 1 : size(besti, j) = best})
             IN  <<besti, bestj, best>>

\* get_matching_blocks: the sum of the sizes of the blocks, found by taking
\* the longest block and recursing to its left and to its right
RECURSIVE MatchedCount(_, _, _, _, _, _)
MatchedCount(a, b, alo, ahi, blo, bhi) ==
    Only({ IF m[3] = 0 THEN 0
           ELSE m[3]
                + (IF alo < m[1] /\ blo < m[2]
                   THEN MatchedCount(a, b, alo, m[1], blo, m[2]) ELSE 0)
                + (IF m[1] + m[3] < ahi /\ m[2] + m[3] < bhi
                   THEN MatchedCount(a, b, m[1] + m[3], ahi, m[2] + m[3], bhi)
                   ELSE 0)
           : m \in {find_longest_match(a, b, alo, ahi, blo, bhi)} })

\* ratio(): 2.0 * matches / (len(a) + len(b)), and 1.0 for two empty sequences
Ratio(a, b) ==
    IF Len(a) + Len(b) = 0 THEN <<1, 1>>
    ELSE Norm(<<2 * MatchedCount(a, b, 1, Len(a) + 1, 1, Len(b) + 1),
                Len(a) + Len(b)>>)

\* ---- _find_best_match (lines 140-170) ----
\* lines 157-168: one keyword of one category; best is (best_match, best_score)
\* lines 158-162: the direct keyword match
DirectMatch(best, category, keyword, message_lower) ==
    IF IsSubstring(keyword, message_lower)
       /\ RatLess(best.best_score, DirectScore)
    THEN [best_match |-> category, best_score |-> DirectScore]
    ELSE best

\* lines 165-168: the fuzzy match, after the direct one
FuzzyMatchGE(best, category, similarity) ==
    IF RatLess(SimilarityFloor, similarity)
       /\ ~RatLess(similarity, best.best_score)
    THEN [best_match |-> category, best_score |-> similarity]
    ELSE best

FuzzyMatchNoFloor(best, category, similarity) ==
    IF RatLess(best.best_score, similarity)
    THEN [best_match |-> category, best_score |-> similarity]
    ELSE best

FuzzyMatch(best, category, similarity) ==
    IF RatLess(SimilarityFloor, similarity)
       /\ RatLess(best.best_score, similarity)
    THEN [best_match |-> category, best_score |-> similarity]
    ELSE best

ScoreKeyword(best, category, keyword, message_lower) ==
    Only({ FuzzyMatch(direct, category, similarity)
           : direct \in {DirectMatch(best, category, keyword, message_lower)},
             similarity \in {Ratio(keyword, message_lower)} })

\* the loop of line 156 over the keywords of one category, from the k-th
RECURSIVE ScoreKeywords(_, _, _, _)
ScoreKeywords(best, category, k, message_lower) ==
    IF k > Len(Keywords(category)) THEN best
    ELSE Only({ ScoreKeywords(next, category, k + 1, message_lower)
                : next \in {ScoreKeyword(best, category,
                                         Keywords(category)[k],
                                         message_lower)} })

\* the loop of line 153 over the categories in their declared order
RECURSIVE ScoreCategories(_, _, _)
ScoreCategories(best, c, message_lower) ==
    IF c > Len(CategoryOrder) THEN best
    ELSE Only({ ScoreCategories(next, c + 1, message_lower)
                : next \in {ScoreKeywords(best, CategoryOrder[c], 1,
                                          message_lower)} })

\* lines 147-150
IsGreeting(message_lower) ==
    \E k \in 1 .. Len(Keywords("greetings")) :
        IsSubstring(Keywords("greetings")[k], message_lower)

\* lines 143-144 and 170
NoMatch == [best_match |-> None, best_score |-> <<0, 1>>]

Returned(best) ==
    [category |-> IF best.best_match # None THEN best.best_match
                  ELSE "unknown",
     confidence |-> best.best_score]

FindBestMatchGreetingLast(msg, lang) ==
    Only({ IF best.best_match # None THEN Returned(best)
           ELSE IF IsGreeting(Lower(msg))
           THEN [category |-> "greetings", confidence |-> GreetingScore]
           ELSE Returned(best)
           : best \in {ScoreCategories(NoMatch, 1, Lower(msg))} })

_find_best_match(msg, lang) ==
    Only({ IF IsGreeting(message_lower)
           THEN [category |-> "greetings", confidence |-> GreetingScore]
           ELSE Only({ Returned(best)
                       : best \in {ScoreCategories(NoMatch, 1, message_lower)} })
           : message_lower \in {Lower(msg)} })

\* ---- _get_fallback_response (lines 184-194) ----
FallbackLanguages == {"en", "hi", "gu", "mr", "raj"}

_get_fallback_response(lang) ==
    IF lang \in FallbackLanguages THEN <<"fallback", lang>>
    ELSE <<"fallback", "en">>

\* ---- _get_response (lines 172-182) ----
Categories == {CategoryOrder[c] : c \in 1 .. Len(CategoryOrder)}

GetResponseNoDefault(category, lang) ==
    IF category = "greetings" \/ category \in Categories
    THEN IF lang \in ResponseLanguages(category) THEN <<category, lang>>
         ELSE GenericText
    ELSE _get_fallback_response(lang)

_get_response(category, lang) ==
    IF category = "greetings" \/ category \in Categories
    THEN IF lang \in ResponseLanguages(category) THEN <<category, lang>>
         ELSE IF "en" \in ResponseLanguages(category) THEN <<category, "en">>
         ELSE GenericText
    ELSE _get_fallback_response(lang)

\* ---- process_message (lines 99-138) ----
\* line 119
BelowThreshold(confidence) == RatLess(confidence, confidence_threshold)

\* what process_message returns (lines 117-126 and 132-138)
NoContact == [office_hours |-> None, email |-> None]    \* contact: None

ResultOf(match, lang) ==
    [called |-> TRUE,
     response |-> IF BelowThreshold(match.confidence)
                  THEN _get_fallback_response(lang)
                  ELSE _get_response(match.category, lang),
     confidence |-> match.confidence,
     category |-> match.category,
     needs_human |-> BelowThreshold(match.confidence),
     contact |-> IF BelowThreshold(match.confidence) THEN Contact
                 ELSE NoContact]

ProcessResult(msg, lang) ==
    Only({ ResultOf(match, lang) : match \in {_find_best_match(msg, lang)} })

\* an entry of "messages" before line 130 gave it its "bot" key
NoBot == <<>>

\* a call that creates the context whether the session has one or not
ContextWithUserReinitialised(contexts, sid, msg, lang) ==
    [s \in DOMAIN contexts \cup {sid} |->
        IF s = sid
        THEN [messages |-> <<[user |-> msg, bot |-> NoBot]>>,
              last_category |-> None, language |-> lang]
        ELSE contexts[s]]

\* lines 103-114: the context is created when new, and the user's message
\* appended (the timestamp of a message is left out)
ContextWithUser(contexts, sid, msg, lang) ==
    LET old == IF sid \in DOMAIN contexts THEN contexts[sid]
               ELSE [messages |-> <<>>, last_category |-> None,
                     language |-> lang]
        new == [old EXCEPT !.messages =
                   Append(@, [user |-> msg, bot |-> NoBot])]
    IN  [s \in DOMAIN contexts \cup {sid} |->
            IF s = sid THEN new ELSE contexts[s]]

\* a call that writes last_category in the context of every session
ContextWithBotAllSessions(contexts, sid, res) ==
    [s \in DOMAIN contexts |->
        IF s = sid
        THEN [contexts[s] EXCEPT
                 !.last_category = res.category,
                 !.messages = [@ EXCEPT ![Len(@)] =
                                  [@ EXCEPT !.bot = res.response]]]
        ELSE [contexts[s] EXCEPT !.last_category = res.category]]

\* lines 129-130: last_category, and messages[-1]["bot"]
ContextWithBot(contexts, sid, res) ==
    [contexts EXCEPT ![sid] =
        [@ EXCEPT !.last_category = res.category,
                  !.messages = [@ EXCEPT ![Len(@)] =
                                   [@ EXCEPT !.bot = res.response]]]]

\* the context after the call (lines 103-114 and 129-130)
ContextAfter(contexts, sid, msg, lang, res) ==
    ContextWithBot(ContextWithUser(contexts, sid, msg, lang), sid, res)

\* what a call was handed and what it returned
ReturnedCall(sid, msg, lang, res) ==
    [session_id |-> sid, message |-> msg, language |-> lang, result |-> res]

\* a call that answers in the language of the session's first turn
ProcessMessageStoredLanguage(sid) ==
    /\ engine_pc = "call"
    /\ \E res \in {ProcessResult(message,
                                 IF sid \in DOMAIN session_contexts
                                 THEN session_contexts[sid].language
                                 ELSE language)} :
          /\ result' = res
          /\ session_contexts' =
                ContextAfter(session_contexts, sid, message, language, res)
          /\ returned' = Append(returned,
                                ReturnedCall(sid, message, language, res))
    /\ engine_pc' = "done"
    /\ UNCHANGED <<message, language, chatVars>>

\* process_message has no suspension point: one step
process_message(sid) ==
    /\ engine_pc = "call"
    /\ \E res \in {ProcessResult(message, language)} :
          /\ result' = res
          /\ session_contexts' =
                ContextAfter(session_contexts, sid, message, language, res)
          /\ returned' = Append(returned,
                                ReturnedCall(sid, message, language, res))
    /\ engine_pc' = "done"
    /\ UNCHANGED <<message, language, chatVars>>

\* ---- an engine serving several sessions ----
\* the texts and the languages of the calls: a greeting, a keyword of a
\* category, a text that matches nothing
ProcessMessages == {<<"h", "i">>, <<"f", "e", "e">>, <<"s">>}
ProcessLanguages == {"en", "hi"}

\* a caller hands a message and a language to process_message (line 99)
CallProcess(msg, lang) ==
    /\ engine_pc \in {"idle", "done"}
    /\ Len(returned) < MaxProcess
    /\ message' = msg
    /\ language' = lang
    /\ engine_pc' = "call"
    /\ UNCHANGED <<session_contexts, result, returned, chatVars>>

\* lines 200-203, between two calls
clear_session_context(sid) ==
    /\ engine_pc \in {"idle", "done"}
    /\ sid \in DOMAIN session_contexts
    /\ session_contexts' =
          [s \in DOMAIN session_contexts \ {sid} |-> session_contexts[s]]
    /\ UNCHANGED <<message, language, engine_pc, result, returned, chatVars>>

\* every text of at most n characters
RECURSIVE Texts(_, _)
Texts(chars, n) ==
    IF n = 0 THEN {<<>>}
    ELSE LET shorter == Texts(chars, n - 1)
         IN  shorter \cup {Append(t, ch) : t \in shorter, ch \in chars}

\* the language codes callers pass: supported ones and an unsupported one
CallerLanguages == {"en", "hi", "mr", "fr"}

\* ---- _load_knowledge_base (lines 16-24) ----
\* What ../data/knowledge_base.json can be when the engine is constructed:
\* no file, a file that cannot be opened or decoded, a file that is no
\* JSON, a JSON file without the keys of a definition ("{}"), a definition.
KbFiles == {"missing", "unreadable", "malformed", "empty", "valid"}

Unloaded == "unloaded"      \* before the constructor ran

\* open() raises FileNotFoundError, caught at line 22; it raises another
\* OSError on a file that cannot be opened and json.load raises
\* JSONDecodeError (a ValueError) on a file that is no JSON, neither of them
\* caught; json.load returns what a JSON file holds.
LoadOutcome(file) ==
    CASE file = "missing" -> "default"
      [] file = "unreadable" -> Raised
      [] file = "malformed" -> Raised
      [] file = "empty" -> "empty"
      [] file = "valid" -> "file"

_load_knowledge_base ==
    /\ knowledge_base = Unloaded
    /\ knowledge_base' = LoadOutcome(kb_file)
    /\ UNCHANGED <<session_contexts, message, language, engine_pc, result,
                   returned, kb_file, chat_pc, request, response_data, http, running,
                   served>>

\* ---- POST /chat (BACKEND/main.py, lines 63-103) ----
ChatCalls == 1 .. MaxChats

\* The requests: each names its session and its language (lines 68 and 72
\* take the else branch).
ChatInputs ==
    { [message |-> <<"f", "e", "e">>, session_id |-> "s1", language |-> "en"],
      [message |-> <<"h", "i">>, session_id |-> "s1", language |-> "hi"],
      [message |-> <<"s">>, session_id |-> "s2", language |-> "en"] }

NoRequest == [message |-> <<>>, session_id |-> "", language |-> ""]
NoHttp == [status_code |-> 0, body |-> <<>>]

\* line 103: HTTPException(500, "Chat processing error: " + str(e))
InternalError(e) ==
    [status_code |-> 500, body |-> <<"Chat processing error: ", e>>]

\* lines 93-100: the ChatResponse.  suggested_contact is declared
\* Optional[str] (line 45), and the contact of a result with needs_human is
\* a dictionary: the model raises a ValidationError, inside the try block.
ChatResponseOf(req, res) ==
    IF res.needs_human THEN InternalError("ValidationError")
    ELSE [status_code |-> 200,
          body |-> [response |-> res.response,
                    detected_language |-> req.language,
                    session_id |-> req.session_id,
                    confidence |-> res.confidence,
                    needs_human |-> res.needs_human,
                    suggested_contact |-> None]]

\* lines 85-91: the arguments of log_conversation; category and needs_human
\* are not passed and take their defaults
LoggedTurn(req, res) ==
    [session_id |-> req.session_id, user_message |-> req.message,
     bot_response |-> res.response, language |-> req.language,
     confidence |-> res.confidence, category |-> None, needs_human |-> FALSE]

\* _update_daily_stats (lines 100-145) with no other connection writing
DailyStatsAfter(tbl, d, a) ==
    IF d \in DOMAIN tbl
    THEN [tbl EXCEPT ![d] = UpdatedRow(tbl[d], a)]
    ELSE [x \in DOMAIN tbl \cup {d} |-> IF x = d THEN FirstRow(a) ELSE tbl[x]]

\* How a log_conversation call can end: it returns, or a statement raises
\* sqlite3.Error (disk full, database locked, constraint violated) before
\* the commit of line 92, or in _update_daily_stats.
LogOutcomes == {"ok", "error before line 92", "error after line 92"}

\* any handler starts at any time
CanRunAlways(c) == TRUE

\* The event loop runs one handler at a time, and chat() hands the loop
\* back only at an await that suspends: process_message (line 99) and
\* log_conversation hold no such await.
CanRun(c) == running = 0

\* lines 66-82, and lines 103-114 of process_message
ChatBegin(c, req) ==
    /\ knowledge_base \in {"default", "file", "empty"}
    /\ chat_pc[c] = "idle"
    /\ \A d \in ChatCalls : d < c => chat_pc[d] # "idle"
    /\ CanRun(c)
    /\ running' = c
    /\ request' = [request EXCEPT ![c] = req]
    /\ session_contexts' = ContextWithUser(session_contexts, req.session_id,
                                           req.message, req.language)
    /\ chat_pc' = [chat_pc EXCEPT ![c] = "process"]
    /\ UNCHANGED <<message, language, engine_pc, result, returned, kb_file,
                   knowledge_base, response_data, http, served>>

\* lines 117-138 of process_message; a knowledge base without "greetings"
\* raises KeyError at line 147, caught at line 102 of main.py
ProcessRespond(c) ==
    /\ chat_pc[c] = "process"
    /\ IF knowledge_base = "empty"
       THEN /\ http' = [http EXCEPT ![c] = InternalError("KeyError")]
            /\ chat_pc' = [chat_pc EXCEPT ![c] = "done"]
            /\ running' = 0
            /\ UNCHANGED <<session_contexts, response_data, served>>
       ELSE \E res \in {ProcessResult(request[c].message,
                                      request[c].language)} :
               /\ response_data' = [response_data EXCEPT ![c] = res]
               /\ session_contexts' =
                     ContextWithBot(session_contexts, request[c].session_id,
                                    res)
               /\ served' = Append(served, c)
               /\ chat_pc' = [chat_pc EXCEPT ![c] = "log"]
               /\ UNCHANGED <<http, running>>
    /\ UNCHANGED <<message, language, engine_pc, result, returned, kb_file,
                   knowledge_base, request>>

\* lines 85-103: log_conversation, then the response
ChatLog(c, outcome) ==
    /\ chat_pc[c] = "log"
    /\ \E a \in {LoggedTurn(request[c], response_data[c])} :
          IF outcome = "error before line 92"
          THEN UNCHANGED <<sessions, conversations, sqlite_sequence, logged,
                           daily_stats>>
          ELSE /\ sessions' = UpsertSession(sessions, a.session_id,
                                            a.language, CURRENT_TIMESTAMP(now))
               /\ conversations' =
                     InsertConversation(conversations, sqlite_sequence, a,
                                        CURRENT_TIMESTAMP(now))
               /\ sqlite_sequence' = sqlite_sequence + 1
               /\ logged' = Append(logged,
                                   ConversationRow(sqlite_sequence, a,
                                                   CURRENT_TIMESTAMP(now)))
               /\ daily_stats' = IF outcome = "ok"
                                 THEN DailyStatsAfter(daily_stats, today, a)
                                 ELSE daily_stats
    /\ http' = [http EXCEPT ![c] =
                  IF outcome = "ok"
                  THEN ChatResponseOf(request[c], response_data[c])
                  ELSE InternalError("sqlite3.Error")]
    /\ chat_pc' = [chat_pc EXCEPT ![c] = "done"]
    /\ running' = 0
    /\ reply' = NoReply
    /\ UNCHANGED <<pc, args, row, now, cleanup_pc, cutoff_date>>
    /\ UNCHANGED <<session_contexts, message, language, engine_pc, result,
                   returned, kb_file, knowledge_base, request, response_data, served>>

(***************************************************************************)
(* LanguageProcessor.                                                      *)
(*                                                                         *)
(* A text handed to detect_language is a sequence of code points.          *)
(***************************************************************************)
\* "a", " ", and of the Devanagari block KA, BA, DA and the vowel sign AA,
\* of the Gujarati block KA, MA and the vowel sign E
DetectAlphabet == {97, 32, 2325, 2348, 2342, 2366, 2709, 2734, 2759}

\* str.isspace(), as str.strip() uses it
IsSpace(ch) == ch = 32

\* \w of Python's re on str: letters and digits; the vowel signs (categories
\* Mc, Mn) are not
IsWordChar(ch) == ch \in {97, 2325, 2348, 2342, 2709, 2734}

\* self.language_map (lines 12-18)
language_map == {"en", "hi", "gu", "mr", "raj"}

\* the order of self.language_patterns (lines 21-38)
PatternOrderGujaratiFirst == <<"gu", "hi", "mr", "raj">>

PatternOrderMarathiFirst == <<"mr", "hi", "gu", "raj">>

PatternOrder == <<"hi", "gu", "mr", "raj">>

\* the script range of a language's first pattern (lines 23, 27, 31, 35)
InScriptRange(lang, ch) ==
    IF lang = "gu" THEN 2688 <= ch /\ ch <= 2815      \* [઀-૿]
    ELSE 2304 <= ch /\ ch <= 2431                     \* [ऀ-ॿ]

\* signature words of a language's second pattern (lines 24, 28, 32, 36),
\* some of each list: hi "kab", gu "kem", mr "kaa", raj "kad"
SignatureWords(lang) ==
    CASE lang = "hi" -> { <<2325, 2348>> }
      [] lang = "gu" -> { <<2709, 2759, 2734>> }
      [] lang = "mr" -> { <<2325, 2366>> }
      [] lang = "raj" -> { <<2325, 2342>> }

\* \b at position p (between txt[p - 1] and txt[p]): a word character on
\* exactly one side
WordAt(txt, p) == p >= 1 /\ p <= Len(txt) /\ IsWordChar(txt[p])
IsBoundary(txt, p) == WordAt(txt, p - 1) # WordAt(txt, p)

\* re.search(r'[lo-hi]', text, re.IGNORECASE)
ScriptPatternMatches(lang, txt) ==
    \E i \in 1 .. Len(txt) : InScriptRange(lang, txt[i])

\* re.search(r'\b(w1|w2|...)\b', text, re.IGNORECASE)
WordPatternMatches(lang, txt) ==
    \E w \in SignatureWords(lang) :
        \E i \in 1 .. Len(txt) - Len(w) + 1 :
            /\ SubSeq(txt, i, i + Len(w) - 1) = w
            /\ IsBoundary(txt, i)
            /\ IsBoundary(txt, i + Len(w))

\* line 68-70: some pattern of the language matches
PatternMatches(lang, txt) ==
    ScriptPatternMatches(lang, txt) \/ WordPatternMatches(lang, txt)

\* _pattern_based_detection (lines 65-71), over the languages from the n-th
RECURSIVE FirstMatching(_, _, _)
FirstMatching(order, n, txt) ==
    IF n > Len(order) THEN None
    ELSE IF PatternMatches(order[n], txt) THEN order[n]
    ELSE FirstMatching(order, n + 1, txt)

_pattern_based_detection(txt) == FirstMatching(PatternOrder, 1, txt)

\* _map_similar_language (lines 73-82)
_map_similar_language(detected_lang) ==
    IF detected_lang \in {"ne", "bn", "ur", "pa"} THEN "hi" ELSE "en"

\* str.strip()
RECURSIVE LStrip(_)
LStrip(txt) ==
    IF txt # <<>> /\ IsSpace(Head(txt)) THEN LStrip(Tail(txt)) ELSE txt

RECURSIVE RStrip(_)
RStrip(txt) ==
    IF txt # <<>> /\ IsSpace(txt[Len(txt)])
    THEN RStrip(SubSeq(txt, 1, Len(txt) - 1)) ELSE txt

Strip(txt) == RStrip(LStrip(txt))

\* line 42
TooShortUnstripped(txt) == txt = <<>> \/ Len(txt) < 3

TooShort(txt) == txt = <<>> \/ Len(Strip(txt)) < 3

\* What langdetect.detect(text) can do: return an ISO code (of the 55 it
\* knows, these), raise LangDetectException, or raise something else.
GuessedCodes == {"en", "mr", "ne", "fr"}
GuessOutcomes == GuessedCodes \cup {"LangDetectException", "OtherException"}
NotCalled == "not called"

\* lines 52-63: after detect(text) ended with outcome g
AfterGuess(g) ==
    IF g = "LangDetectException" THEN "en"
    ELSE IF g = "OtherException" THEN Raised
    ELSE IF g \in language_map THEN g
    ELSE _map_similar_language(g)

\* detect_language (lines 40-63)
detect_language ==
    /\ detect_pc = "call"
    /\ IF TooShort(text)
       THEN guess' = NotCalled /\ detected' = "en"
       ELSE IF _pattern_based_detection(text) # None
       THEN guess' = NotCalled /\ detected' = _pattern_based_detection(text)
       ELSE \E g \in GuessOutcomes :
               guess' = g /\ detected' = AfterGuess(g)
    /\ detect_pc' = "done"
    /\ UNCHANGED text

StoreInit ==
    /\ sessions = [s \in {} |-> 0]
    /\ conversations = <<>>
    /\ daily_stats = [d \in {} |-> 0]
    /\ pc = [c \in Calls |-> "idle"]
    /\ args = [c \in Calls |-> NoArgs]
    /\ row = [c \in Calls |-> NoRowFetched]
    /\ sqlite_sequence = 0
    /\ now = <<1, 0>>
    /\ cleanup_pc = "idle"
    /\ cutoff_date = <<0, 0>>
    /\ logged = <<>>
    /\ reply = NoReply

NoResult ==
    [called |-> FALSE, response |-> <<>>, confidence |-> <<0, 1>>,
     category |-> None, needs_human |-> FALSE, contact |-> NoContact]

\* no request: an engine that loaded the built-in definition
ChatIdle ==
    /\ kb_file = "missing"
    /\ knowledge_base = "default"
    /\ chat_pc = [c \in ChatCalls |-> "idle"]
    /\ request = [c \in ChatCalls |-> NoRequest]
    /\ response_data = [c \in ChatCalls |-> NoResult]
    /\ http = [c \in ChatCalls |-> NoHttp]
    /\ running = 0
    /\ served = <<>>

EngineIdle ==
    /\ session_contexts = [s \in {} |-> 0]
    /\ message = <<>>
    /\ language = "en"
    /\ engine_pc = "idle"
    /\ result = NoResult
    /\ returned = <<>>
    /\ ChatIdle

DetectIdle ==
    /\ text = <<>>
    /\ guess = NotCalled
    /\ detect_pc = "idle"
    /\ detected = None

Init == StoreInit /\ EngineIdle /\ DetectIdle

Next ==
    \/ \E c \in Calls, a \in TurnInputs :
          LogTurn(c, a) /\ UNCHANGED <<engineVars, detectVars>>
    \/ \E c \in Calls :
          SelectDailyStats(c) /\ UNCHANGED <<engineVars, detectVars>>
    \/ \E c \in Calls :
          WriteDailyStats(c) /\ UNCHANGED <<engineVars, detectVars>>

Spec == Init /\ [][Next]_vars

\* ---- process_message on every message and language ----
StoreIdle ==
    /\ StoreInit

EngineInit ==
    /\ session_contexts = [s \in {} |-> 0]
    /\ message \in Texts(Alphabet, MaxLen)
    /\ language \in CallerLanguages
    /\ engine_pc = "call"
    /\ result = NoResult
    /\ returned = <<>>
    /\ ChatIdle

InitEngine == StoreIdle /\ EngineInit /\ DetectIdle

NextEngine ==
    process_message("s1") /\ UNCHANGED <<storeVars, detectVars>>

SpecEngine == InitEngine /\ [][NextEngine]_vars

\* ---- detect_language on every text ----
DetectInit ==
    /\ text \in Texts(DetectAlphabet, MaxText)
    /\ guess = NotCalled
    /\ detect_pc = "call"
    /\ detected = None

InitDetect == StoreIdle /\ EngineIdle /\ DetectInit

NextDetect == detect_language /\ UNCHANGED <<storeVars, engineVars>>

SpecDetect == InitDetect /\ [][NextDetect]_vars

\* ---- the store over several days, with cleanup_old_logs and the reads ----
\* the arguments of TurnInputs, and a call with a language code that is no
\* supported code: callers' codes are stored as they come
StoreInputs ==
    TurnInputs \cup
    { [session_id |-> "s1", user_message |-> "eh", bot_response |-> "contact",
       language |-> "e", confidence |-> <<0, 1>>,
       category |-> None, needs_human |-> TRUE] }

\* the calls of these runs
StoreCalls == 1 .. MaxTurns

NextStore ==
    \/ \E c \in StoreCalls, a \in StoreInputs :
          LogTurn(c, a) /\ UNCHANGED <<engineVars, detectVars>>
    \/ \E c \in StoreCalls :
          SelectDailyStats(c) /\ UNCHANGED <<engineVars, detectVars>>
    \/ \E c \in StoreCalls :
          WriteDailyStats(c) /\ UNCHANGED <<engineVars, detectVars>>
    \/ Tick /\ UNCHANGED <<engineVars, detectVars>>
    \/ \E days_to_keep \in RetentionDays :
          cleanup_old_logs(days_to_keep) /\ UNCHANGED <<engineVars, detectVars>>

SpecStore == Init /\ [][NextStore]_vars

\* ---- the reads of one process ----
\* The event loop runs a log_conversation call to its end (no await inside
\* it suspends), so the clock, the cleanup and the reads of the process act
\* between two calls.
AtRest == \A c \in Calls : pc[c] \in {"idle", "done", "failed"}

\* A read changes nothing but the reply, so a read that follows another read
\* returns what it returns without it: a run repeats its last read or reads
\* after something else ran.
ReadNow(op, arg) ==
    /\ AtRest
    /\ reply = NoReply \/ (reply.op = op /\ reply.arg = arg)

NextRead ==
    \/ \E c \in StoreCalls, a \in TurnInputs :
          AtRest /\ LogTurn(c, a) /\ UNCHANGED <<engineVars, detectVars>>
    \/ \E c \in StoreCalls :
          SelectDailyStats(c) /\ UNCHANGED <<engineVars, detectVars>>
    \/ \E c \in StoreCalls :
          WriteDailyStats(c) /\ UNCHANGED <<engineVars, detectVars>>
    \/ AtRest /\ Tick /\ UNCHANGED <<engineVars, detectVars>>
    \/ \E days_to_keep \in RetentionDays :
          AtRest /\ cleanup_old_logs(days_to_keep)
          /\ UNCHANGED <<engineVars, detectVars>>
    \/ \E sid \in SessionIds :
          /\ ReadNow("get_session_info", <<sid>>)
          /\ get_session_info(sid)
          /\ UNCHANGED <<engineVars, detectVars>>
    \/ \E sid \in SessionIds :
          /\ ReadNow("GET /sessions", <<sid>>)
          /\ route_get_session_info(sid)
          /\ UNCHANGED <<engineVars, detectVars>>
    \/ \E sid \in SessionIds :
          /\ ReadNow("get_conversation_history", <<sid>>)
          /\ get_conversation_history(sid)
          /\ UNCHANGED <<engineVars, detectVars>>
    \/ \E date_str \in QueryDates :
          /\ ReadNow("get_daily_logs", <<date_str>>)
          /\ get_daily_logs(date_str)
          /\ UNCHANGED <<engineVars, detectVars>>
    \/ \E start_date \in QueryDates, end_date \in QueryDates :
          /\ ReadNow("export_logs", <<start_date, end_date>>)
          /\ export_logs(start_date, end_date)
          /\ UNCHANGED <<engineVars, detectVars>>

SpecRead == Init /\ [][NextRead]_vars

\* ---- the application: the engine is constructed, then serves requests ----
ChatInit ==
    /\ session_contexts = [s \in {} |-> 0]
    /\ message = <<>>
    /\ language = "en"
    /\ engine_pc = "idle"
    /\ result = NoResult
    /\ returned = <<>>
    /\ kb_file \in KbFiles
    /\ knowledge_base = Unloaded
    /\ chat_pc = [c \in ChatCalls |-> "idle"]
    /\ request = [c \in ChatCalls |-> NoRequest]
    /\ response_data = [c \in ChatCalls |-> NoResult]
    /\ http = [c \in ChatCalls |-> NoHttp]
    /\ running = 0
    /\ served = <<>>

InitChat == StoreInit /\ ChatInit /\ DetectIdle

NextChat ==
    \/ _load_knowledge_base /\ UNCHANGED <<storeVars, detectVars>>
    \/ \E c \in ChatCalls, req \in ChatInputs :
          ChatBegin(c, req) /\ UNCHANGED <<storeVars, detectVars>>
    \/ \E c \in ChatCalls :
          ProcessRespond(c) /\ UNCHANGED <<storeVars, detectVars>>
    \/ \E c \in ChatCalls, outcome \in LogOutcomes :
          ChatLog(c, outcome) /\ UNCHANGED detectVars

SpecChat == InitChat /\ [][NextChat]_vars

\* ---- one engine, several sessions, calls one after the other ----
NextSessions ==
    \/ \E msg \in ProcessMessages, lang \in ProcessLanguages :
          CallProcess(msg, lang) /\ UNCHANGED <<storeVars, detectVars>>
    \/ \E sid \in SessionIds :
          process_message(sid) /\ UNCHANGED <<storeVars, detectVars>>
    \/ \E sid \in SessionIds :
          clear_session_context(sid) /\ UNCHANGED <<storeVars, detectVars>>

SpecSessions == Init /\ [][NextSessions]_vars

(***************************************************************************)
(* Properties of the store.                                                *)
(***************************************************************************)
RECURSIVE SumConfidence(_)
SumConfidence(turns) ==
    IF turns = <<>> THEN <<0, 1>>
    ELSE RatAdd(Head(turns).confidence, SumConfidence(Tail(turns)))

Started == {c \in Calls : pc[c] # "idle"}
AllReturned == Started # {} /\ \A c \in Started : pc[c] = "done"
AllEnded == Started # {} /\ \A c \in Started : pc[c] \in {"done", "failed"}

TotalToday ==
    IF today \in DOMAIN daily_stats
    THEN daily_stats[today].total_conversations ELSE 0

\* C1: once every log_conversation call of the date has returned, the date's
\* row satisfies avg_confidence * total_conversations = the sum of the
\* confidences passed, under every interleaving of the calls.
C1_AverageTimesTotalIsSum ==
    AllReturned =>
        /\ today \in DOMAIN daily_stats
        /\ RatEq(RatMulInt(daily_stats[today].avg_confidence,
                           daily_stats[today].total_conversations),
                 SumConfidence(conversations))

\* C2: the three writes of a call are one transaction: no reader ever sees a
\* stored turn that the date's daily_stats row does not count.
C2_NoPartialWriteVisible == TotalToday = Len(conversations)

\* C3: concurrent calls of one date serialize on the date's row: every call
\* ends without error and total_conversations is the number of turns stored.
C3_NoIncrementLost ==
    AllEnded =>
        /\ \A c \in Started : pc[c] = "done"
        /\ TotalToday = Len(conversations)

(***************************************************************************)
(* Properties of the store over several days.                              *)
(***************************************************************************)
\* the rows ever inserted for a session, and on a date
LoggedFor(sid) == SelectSeq(logged, LAMBDA t : t.session_id = sid)
LoggedOn(d) == SelectSeq(logged, LAMBDA t : DATE(t.timestamp) = d)

\* the step inserts a turn of session sid
LogsTurnOf(sid) ==
    /\ Len(logged') = Len(logged) + 1
    /\ logged'[Len(logged')].session_id = sid

\* C11: the first log_conversation call of a session id creates its record
\* with message_count 1; a later call adds exactly 1 and keeps created_at;
\* message_count never decreases and, before any cleanup, is the number of
\* calls made for the id.
C11_SessionUpsert ==
    /\ [](cleanup_pc = "idle" =>
            \A sid \in SessionIds :
                IF sid \in DOMAIN sessions
                THEN sessions[sid].message_count = Len(LoggedFor(sid))
                ELSE Len(LoggedFor(sid)) = 0)
    /\ [][\A sid \in SessionIds :
            /\ (sid \notin DOMAIN sessions /\ LogsTurnOf(sid)) =>
                  /\ sid \in DOMAIN sessions'
                  /\ sessions'[sid].message_count = 1
            /\ (sid \in DOMAIN sessions /\ LogsTurnOf(sid)) =>
                  /\ sid \in DOMAIN sessions'
                  /\ sessions'[sid].message_count =
                        sessions[sid].message_count + 1
                  /\ sessions'[sid].created_at = sessions[sid].created_at
            /\ (sid \in DOMAIN sessions /\ sid \in DOMAIN sessions') =>
                  /\ sessions'[sid].message_count >=
                        sessions[sid].message_count
                  /\ sessions'[sid].created_at = sessions[sid].created_at]_vars

\* a session logged twice, at two instants
C11_Witness ==
    /\ "s1" \in DOMAIN sessions
    /\ sessions["s1"].message_count = 2
    /\ sessions["s1"].created_at # sessions["s1"].updated_at
    /\ Len(LoggedFor("s1")) = 2

Elements(seq) == {seq[i] : i \in 1 .. Len(seq)}

\* C12: before any cleanup, languages_used of a session is exactly the set
\* of the language codes logged for it, each once, whatever the codes.
C12_LanguagesUsedIsExactSet ==
    cleanup_pc = "idle" =>
        \A sid \in DOMAIN sessions :
            /\ Elements(sessions[sid].languages_used) =
                  {t.language : t \in Elements(LoggedFor(sid))}
            /\ Cardinality(Elements(sessions[sid].languages_used)) =
                  Len(sessions[sid].languages_used)

\* the instant a timestamp text denotes, and the order of instants
InstantOf(ts) == <<ts[1], ts[3]>>
InstantBefore(x, y) == x[1] < y[1] \/ (x[1] = y[1] /\ x[2] < y[2])

\* the turns at or after an instant
NotBefore(tbl, instant) ==
    SelectSeq(tbl, LAMBDA t : ~InstantBefore(InstantOf(t.timestamp), instant))

\* C13: a cleanup step removes exactly the turns whose timestamp is before
\* the cutoff (now minus days_to_keep), exactly the sessions left without a
\* turn and exactly the daily_stats rows of dates before the cutoff's date;
\* everything else stays as it is.
C13_CleanupRemovesExactlyOld ==
    [][(cleanup_pc = "idle" /\ cleanup_pc' = "done") =>
          /\ \E days_to_keep \in RetentionDays :
                cutoff_date' = <<now[1] - days_to_keep, now[2]>>
          /\ conversations' = NotBefore(conversations, cutoff_date')
          /\ sessions' =
                Restrict(sessions,
                    {sid \in DOMAIN sessions :
                        NotBefore(SelectSeq(conversations,
                                      LAMBDA t : t.session_id = sid),
                                  cutoff_date') # <<>>})
          /\ daily_stats' =
                Restrict(daily_stats,
                    {d \in DOMAIN daily_stats : d >= cutoff_date'[1]})]_vars

\* C14: when a cleanup and the log_conversation calls around it have all
\* ended, every turn logged at or after the cutoff is stored, with its
\* session, and the row of the current date has avg_confidence *
\* total_conversations = the sum of the confidences logged on that date.
C14_CleanupSafeWithLogging ==
    (cleanup_pc = "done" /\ AllEnded) =>
        /\ \A t \in Elements(NotBefore(logged, cutoff_date)) :
              /\ t \in Elements(conversations)
              /\ t.session_id \in DOMAIN sessions
        /\ LoggedOn(today) # <<>> =>
              /\ today \in DOMAIN daily_stats
              /\ RatEq(RatMulInt(daily_stats[today].avg_confidence,
                                 daily_stats[today].total_conversations),
                       SumConfidence(LoggedOn(today)))

\* C16: a read of a session id that has no record returns None from
\* get_session_info, and status 404 "Session not found" from the route.
C16_AbsentSessionIsNotFound ==
    /\ (reply.op = "get_session_info" /\ reply.arg[1] \notin DOMAIN sessions)
          => reply.value = None
    /\ (reply.op = "GET /sessions" /\ reply.arg[1] \notin DOMAIN sessions)
          => reply.value.status_code = 404

\* the stored turns of a session, in the order they were logged
StoredTurnsOf(sid) == SelectSeq(conversations, LAMBDA t : t.session_id = sid)

DatabaseUnchanged ==
    UNCHANGED <<sessions, conversations, daily_stats, sqlite_sequence>>

\* C17: get_conversation_history returns exactly the stored turns of the
\* session, in the order they were logged, which is by non-decreasing
\* timestamp; it changes nothing stored, and read again with no write in
\* between it returns the same.
C17_HistoryOldestFirst ==
    /\ [](reply.op = "get_conversation_history" =>
            /\ Len(reply.value) = Len(StoredTurnsOf(reply.arg[1]))
            /\ \A i \in 1 .. Len(reply.value) :
                  reply.value[i] =
                      HistoryEntry(StoredTurnsOf(reply.arg[1])[i])
            /\ \A i, j \in 1 .. Len(reply.value) :
                  i < j => ~TextLess(reply.value[j].timestamp,
                                     reply.value[i].timestamp))
    /\ [][reply'.op = "get_conversation_history" =>
            /\ DatabaseUnchanged
            /\ (reply.op = reply'.op /\ reply.arg = reply'.arg)
                  => reply'.value = reply.value]_vars

\* two turns of a session at two instants, and a turn of another session
C17_Witness ==
    /\ reply.op = "get_conversation_history"
    /\ Len(reply.value) = 2
    /\ reply.value[1].timestamp # reply.value[2].timestamp
    /\ reply.value[1].language # reply.value[2].language

\* the stored turns dated from lo to hi
StoredTurnsBetween(lo, hi) ==
    {t \in Elements(conversations) :
        lo <= DATE(t.timestamp) /\ DATE(t.timestamp) <= hi}

\* C18: export_logs returns exactly the stored turns dated from start_date
\* to end_date, both included, each once, by non-increasing timestamp; and
\* get_daily_logs of a date returns what export_logs returns for the range
\* from that date to that date.
C18_ExportRangeNewestFirst ==
    /\ reply.op = "export_logs" =>
          /\ {[session_id |-> e.session_id] @@ HistoryEntry(e) :
                 e \in Elements(JsonLoads(reply.value))} =
             {[session_id |-> t.session_id] @@ HistoryEntry(t) :
                 t \in StoredTurnsBetween(reply.arg[1], reply.arg[2])}
          /\ Len(JsonLoads(reply.value)) =
                Cardinality(StoredTurnsBetween(reply.arg[1], reply.arg[2]))
          /\ \A i, j \in 1 .. Len(JsonLoads(reply.value)) :
                i < j => ~TextLess(JsonLoads(reply.value)[i].timestamp,
                                   JsonLoads(reply.value)[j].timestamp)
    /\ reply.op = "get_daily_logs" =>
          reply.value = JoinedRows(conversations, sessions,
                                   reply.arg[1], reply.arg[1])
    /\ (reply.op = "export_logs" /\ reply.arg[1] = reply.arg[2]) =>
          JsonLoads(reply.value) = DailyRows(conversations, sessions,
                                             reply.arg[1])

\* an export over two days, holding a turn of each
C18_Witness ==
    /\ reply.op = "export_logs"
    /\ reply.arg[1] < reply.arg[2]
    /\ Len(JsonLoads(reply.value)) = 2
    /\ DATE(JsonLoads(reply.value)[1].timestamp) = reply.arg[2]
    /\ DATE(JsonLoads(reply.value)[2].timestamp) = reply.arg[1]

\* C28: in every state of the database, every stored turn is of a session
\* that has its record, and every session record has a stored turn and a
\* message_count that is at least the number of its stored turns.
C28_ReferentialConsistency ==
    /\ \A i \in 1 .. Len(conversations) :
          conversations[i].session_id \in DOMAIN sessions
    /\ \A sid \in DOMAIN sessions :
          /\ StoredTurnsOf(sid) # <<>>
          /\ sessions[sid].message_count >= Len(StoredTurnsOf(sid))

\* a cleanup deleted one of the two turns of s1 and kept its record
C28_Witness ==
    /\ cleanup_pc = "done"
    /\ Len(logged) = 2
    /\ DOMAIN sessions = {"s1"}
    /\ sessions["s1"].message_count = 2
    /\ Len(StoredTurnsOf("s1")) = 1

\* the session ids that logged a turn on date d
SessionsLoggedOn(d) == {LoggedOn(d)[i].session_id : i \in 1 .. Len(LoggedOn(d))}

\* C25: between two log_conversation calls and before any cleanup, the row
\* of a date holds in total_sessions the number of the session ids that
\* logged a turn on that date.
C25_TotalSessionsCounted ==
    (AtRest /\ cleanup_pc = "idle") =>
        \A d \in DOMAIN daily_stats :
            daily_stats[d].total_sessions = Cardinality(SessionsLoggedOn(d))

\* the sum of the counts of a breakdown
RECURSIVE MapSum(_)
MapSum(map) ==
    IF DOMAIN map = {} THEN 0
    ELSE LET k == CHOOSE x \in DOMAIN map : TRUE
         IN  map[k] + MapSum([x \in DOMAIN map \ {k} |-> map[x]])

CountOf(map, key) == IF key \in DOMAIN map THEN map[key] ELSE 0

LoggedOnIn(d, lang) == SelectSeq(LoggedOn(d), LAMBDA t : t.language = lang)
LoggedOnAs(d, cat) == SelectSeq(LoggedOn(d), LAMBDA t : t.category = cat)
LoggedOnMatched(d) == SelectSeq(LoggedOn(d), LAMBDA t : t.category # None)

C15_LogFailureStillAnswers ==
    [][\A c \in ChatCalls :
          (\E outcome \in LogOutcomes \ {"ok"} : ChatLog(c, outcome)) =>
              /\ http'[c].status_code = 200
              /\ http'[c].body.response = response_data[c].response
              /\ http'[c].body.confidence = response_data[c].confidence
              /\ http'[c].body.needs_human = response_data[c].needs_human]_vars

\* C19: the constructor always ends with a knowledge base that has its
\* categories, greetings and contact, and with the built-in one when the
\* file is missing, cannot be read or cannot be parsed.
C19_LoadNeverFails ==
    knowledge_base # Unloaded =>
        /\ knowledge_base \in {"default", "file"}
        /\ kb_file \in {"missing", "unreadable", "malformed"} =>
              knowledge_base = "default"

\* the requests of a session, in the order process_message returned
ServedFor(sid) == SelectSeq(served, LAMBDA c : request[c].session_id = sid)

InProcess == {c \in ChatCalls : chat_pc[c] = "process"}

C24_StoredTurnRecordsClassification ==
    [][\A c \in ChatCalls :
          ChatLog(c, "ok") =>
              /\ conversations'[Len(conversations')].category =
                    response_data[c].category
              /\ conversations'[Len(conversations')].needs_human =
                    response_data[c].needs_human
              /\ response_data[c].needs_human =>
                    daily_stats'[today].human_handoff_count > 0
              /\ ~response_data[c].needs_human =>
                    response_data[c].category \in
                        DOMAIN daily_stats'[today].categories_breakdown]_vars

\* a step of request c inside process_message (lines 99-138)
InProcessMessage(c) ==
    /\ chat_pc[c] \in {"idle", "process"}
    /\ chat_pc'[c] # chat_pc[c]

\* C22: a step of process_message for session s leaves the context of
\* every other session, the set of the other sessions that have a context,
\* the knowledge base and the tables of the store as they are.
C22_ProcessChangesOnlyItsContext ==
    [][\A c \in ChatCalls :
          InProcessMessage(c) =>
              /\ \A s \in DOMAIN session_contexts \ {request'[c].session_id} :
                    /\ s \in DOMAIN session_contexts'
                    /\ session_contexts'[s] = session_contexts[s]
              /\ DOMAIN session_contexts' \subseteq
                    DOMAIN session_contexts \cup {request'[c].session_id}
              /\ knowledge_base' = knowledge_base
              /\ sessions' = sessions
              /\ conversations' = conversations
              /\ daily_stats' = daily_stats
              /\ sqlite_sequence' = sqlite_sequence]_vars

\* process_message has returned for s2 while s1 has a context of another
\* category and a stored turn
C22_Witness ==
    /\ served = <<1, 2>>
    /\ request[1].session_id = "s1"
    /\ request[2].session_id = "s2"
    /\ chat_pc[2] = "log"
    /\ Len(conversations) = 1
    /\ "s1" \in DOMAIN sessions
    /\ DOMAIN session_contexts = {"s1", "s2"}
    /\ session_contexts["s1"].last_category = response_data[1].category
    /\ session_contexts["s2"].last_category = response_data[2].category
    /\ response_data[1].category # response_data[2].category

(***************************************************************************)
(* Properties of the session contexts of one engine.                       *)
(***************************************************************************)
\* a step in which a process_message call runs, and the session it is for
ProcessStep == engine_pc = "call" /\ engine_pc' = "done"
ProcessedSession == returned'[Len(returned')].session_id

CallsOf(sid) == SelectSeq(returned, LAMBDA r : r.session_id = sid)

IsPrefix(a, b) == Len(a) <= Len(b) /\ SubSeq(b, 1, Len(a)) = a

\* C21: a session has no context before its first process_message call and
\* has one after it; a process_message call, on whatever session, keeps
\* every context there is, with its language and the messages it holds,
\* and adds one message to the context of its session; a context goes away
\* only in a clear_session_context step on its session.
C21_SessionLifecycle ==
    /\ [](\A sid \in SessionIds :
            CallsOf(sid) = <<>> => sid \notin DOMAIN session_contexts)
    /\ [][ProcessStep =>
            /\ ProcessedSession \in DOMAIN session_contexts'
            /\ \A s \in DOMAIN session_contexts :
                  /\ s \in DOMAIN session_contexts'
                  /\ session_contexts'[s].language =
                        session_contexts[s].language
                  /\ IsPrefix(session_contexts[s].messages,
                              session_contexts'[s].messages)
                  /\ Len(session_contexts'[s].messages) =
                        Len(session_contexts[s].messages) +
                        (IF s = ProcessedSession THEN 1 ELSE 0)]_vars
    /\ [][\A s \in DOMAIN session_contexts :
            s \notin DOMAIN session_contexts' =>
                clear_session_context(s)]_vars

\* s1 has the history of two calls, with a call on s2 between them, and the
\* context of s2 was cleared
C21_Witness ==
    /\ Len(returned) = 3
    /\ returned[1].session_id = "s1"
    /\ returned[2].session_id = "s2"
    /\ returned[3].session_id = "s1"
    /\ engine_pc = "done"
    /\ "s1" \in DOMAIN session_contexts
    /\ Len(session_contexts["s1"].messages) = 2
    /\ session_contexts["s1"].language = returned[1].language
    /\ returned[3].language # returned[1].language
    /\ "s2" \notin DOMAIN session_contexts

\* C23: two process_message calls with the same text and the same language
\* return the same response, confidence, category and needs_human, whatever
\* their sessions and whatever the contexts of the sessions hold.
C23_ScoringIgnoresHistory ==
    \A i \in 1 .. Len(returned), j \in 1 .. Len(returned) :
        (/\ returned[i].message = returned[j].message
         /\ returned[i].language = returned[j].language) =>
            /\ returned[i].result.response = returned[j].result.response
            /\ returned[i].result.confidence = returned[j].result.confidence
            /\ returned[i].result.category = returned[j].result.category
            /\ returned[i].result.needs_human = returned[j].result.needs_human

\* the same text and language on a new session and on a session that holds
\* a turn of another category, asked in another language
C23_Witness ==
    /\ Len(returned) = 3
    /\ engine_pc = "done"
    /\ returned[1].session_id = "s1"
    /\ returned[2].session_id = "s2"
    /\ returned[3].session_id = "s1"
    /\ returned[2].message = returned[3].message
    /\ returned[2].language = returned[3].language
    /\ returned[1].language # returned[3].language
    /\ returned[1].result.category # returned[3].result.category
    /\ ~returned[3].result.needs_human
    /\ Len(session_contexts["s1"].messages) = 2
    /\ session_contexts["s1"].language # returned[3].language

(***************************************************************************)
(* Properties of process_message.                                          *)
(***************************************************************************)
Processed == engine_pc = "done"

RatLeq(p, q) == ~RatLess(q, p)

LocalizedFallback(lang) ==
    <<"fallback", IF lang \in language_map THEN lang ELSE "en">>

\* C4: the confidence process_message returns lies in [0, 1]; below 0.6 the
\* result has needs_human, the fallback category "unknown", the localized
\* contact-our-office message and the contact record.
C4_LowConfidenceIsFallback ==
    Processed =>
        /\ RatLeq(<<0, 1>>, result.confidence)
        /\ RatLeq(result.confidence, <<1, 1>>)
        /\ RatLess(result.confidence, <<3, 5>>) =>
              /\ result.needs_human
              /\ result.category = "unknown"
              /\ result.response = LocalizedFallback(language)
              /\ result.contact = Contact

C4_Witness ==
    /\ Processed
    /\ RatLess(result.confidence, <<3, 5>>)
    /\ result.needs_human
    /\ message # <<>>

HasGreetingKeyword ==
    \E k \in 1 .. Len(Keywords("greetings")) :
        IsSubstring(Keywords("greetings")[k], Lower(message))

HasCategoryKeyword ==
    \E c \in Categories : \E k \in 1 .. Len(Keywords(c)) :
        IsSubstring(Keywords(c)[k], Lower(message))

\* C5, as claimed: a message whose lower-cased text holds a greeting keyword
\* gets category "greeting", confidence exactly 0.9 and needs_human = false.
C5_GreetingCategoryAsClaimed ==
    (Processed /\ HasGreetingKeyword) =>
        /\ result.category = "greeting"
        /\ result.confidence = <<9, 10>>
        /\ ~result.needs_human

\* C5, amended: a message whose lower-cased text holds a greeting keyword
\* gets category "greetings", confidence exactly 0.9 and needs_human = false,
\* whatever category keywords it also holds.
C5_GreetingShortCircuit ==
    (Processed /\ HasGreetingKeyword) =>
        /\ result.category = "greetings"
        /\ result.confidence = <<9, 10>>
        /\ ~result.needs_human

C5_Witness ==
    /\ Processed
    /\ HasGreetingKeyword
    /\ HasCategoryKeyword
    /\ \E i \in 1 .. Len(message) : message[i] = "F"
    /\ result.category = "greetings"

\* the fallback message, in any language
FallbackMessages == {_get_fallback_response(lang) : lang \in CallerLanguages}

\* C26: needs_human holds exactly when the category is "unknown" and the
\* confidence 0.0; no confidence lies in 0 < c <= 0.6; a result without
\* needs_human has a confidence above 0.6, the category of a keyword or
\* "greetings", no contact, and the response of its category, which is not
\* the fallback message.
C26_HandoffIffUnknown ==
    Processed =>
        /\ result.needs_human <=>
              (result.category = "unknown" /\ result.confidence = <<0, 1>>)
        /\ result.category = "unknown" <=> result.confidence = <<0, 1>>
        /\ ~(/\ RatLess(<<0, 1>>, result.confidence)
             /\ RatLeq(result.confidence, <<3, 5>>))
        /\ ~result.needs_human =>
              /\ RatLess(<<3, 5>>, result.confidence)
              /\ result.category \in Categories \cup {"greetings"}
              /\ result.contact = NoContact
              /\ result.response = _get_response(result.category, language)
              /\ result.response \notin FallbackMessages

\* a similarity between the threshold and the direct score decides
C26_Witness ==
    /\ Processed
    /\ ~result.needs_human
    /\ ~HasCategoryKeyword
    /\ RatLess(<<3, 5>>, result.confidence)
    /\ RatLess(result.confidence, <<7, 10>>)
    /\ result.category = "exams"
    /\ result.contact = NoContact

\* The score of one (category, keyword) pair: 0.8 for a substring, the
\* similarity ratio above 0.6, the larger when both apply, 0 for neither.
PairScore(keyword, message_lower) ==
    LET sub == IsSubstring(keyword, message_lower)
        sim == Ratio(keyword, message_lower)
        fuzzy == RatLess(<<3, 5>>, sim)
    IN  IF sub /\ fuzzy THEN (IF RatLess(sim, <<4, 5>>) THEN <<4, 5>> ELSE sim)
        ELSE IF sub THEN <<4, 5>>
        ELSE IF fuzzy THEN sim
        ELSE <<0, 1>>

RatMax(S) == CHOOSE x \in S : \A y \in S : RatLeq(y, x)

CategoryScore(c, message_lower) ==
    RatMax({PairScore(Keywords(CategoryOrder[c])[k], message_lower) :
              k \in 1 .. Len(Keywords(CategoryOrder[c]))})

BestScore(message_lower) ==
    RatMax({CategoryScore(c, message_lower) : c \in 1 .. Len(CategoryOrder)})

FirstBestCategory(message_lower) ==
    CategoryOrder[SetMin({c \in 1 .. Len(CategoryOrder) :
        CategoryScore(c, message_lower) = BestScore(message_lower)})]

\* C6: without a greeting keyword, the confidence is the maximum of the pair
\* scores over all (category, keyword) pairs, and the category is the first
\* one, in the declared order, that reaches the maximum.
C6_BestPairFirstCategory ==
    (Processed /\ ~HasGreetingKeyword) =>
        /\ result.confidence = BestScore(Lower(message))
        /\ RatLess(<<0, 1>>, BestScore(Lower(message))) =>
              result.category = FirstBestCategory(Lower(message))

\* a tie between two categories, below the direct score
C6_Witness ==
    /\ Processed
    /\ ~HasGreetingKeyword
    /\ CategoryScore(1, Lower(message)) = CategoryScore(2, Lower(message))
    /\ RatLess(<<3, 5>>, result.confidence)
    /\ RatLess(result.confidence, <<4, 5>>)
    /\ result.category = "fees"

\* C7: the response of a winning category is its text in the requested
\* language, or else its "en" text, or else the generic string; a code
\* outside the supported set gets default-language text, from the category
\* and from the fallback message alike.
C7_ResponseSelection ==
    Processed =>
        /\ result.needs_human =>
              result.response = LocalizedFallback(language)
        /\ ~result.needs_human =>
              result.response =
                 IF language \in ResponseLanguages(result.category)
                 THEN <<result.category, language>>
                 ELSE IF "en" \in ResponseLanguages(result.category)
                 THEN <<result.category, "en">>
                 ELSE GenericText
        /\ language \notin language_map =>
              result.response \in {<<result.category, "en">>,
                                   <<"fallback", "en">>, GenericText}

C7_Witness ==
    /\ Processed
    /\ language \notin language_map
    /\ result.response = <<"fees", "en">>

(***************************************************************************)
(* Properties of detect_language.                                          *)
(***************************************************************************)
Detected == detect_pc = "done"

NonSpaceCount(txt) == Cardinality({i \in 1 .. Len(txt) : ~IsSpace(txt[i])})

\* C8, as claimed: a text with fewer than 3 non-whitespace characters, counted
\* anywhere in the text, is detected as "en".
C8_FewNonSpaceIsDefault ==
    (Detected /\ NonSpaceCount(text) < 3) => detected = "en"

LeadingSpaces(txt) == Len(txt) - Len(LStrip(txt))
TrailingSpaces(txt) == Len(txt) - Len(RStrip(txt))

\* C8, amended: a text of fewer than 3 characters between its first and its
\* last non-whitespace character (both included) is detected as "en",
\* whatever the script of its characters.
C8_ShortAfterStripIsDefault ==
    (Detected /\ Len(text) - LeadingSpaces(text) - TrailingSpaces(text) < 3)
        => detected = "en" /\ guess = NotCalled

C8_Witness ==
    /\ Detected
    /\ Len(text) >= 3
    /\ Len(Strip(text)) = 2
    /\ ScriptPatternMatches("hi", text)
    /\ detected = "en"

\* C9: detect_language returns a supported code on every text, whatever the
\* guessing routine does, and returns "en" when the routine raised an
\* exception or guessed a code that is neither supported nor mapped.
C9_DetectIsTotal ==
    Detected =>
        /\ detected \in language_map
        /\ (\/ guess \in {"LangDetectException", "OtherException"}
            \/ guess \in GuessedCodes \ (language_map \cup {"ne", "bn", "ur", "pa"}))
              => detected = "en"

ClaimedPriority == <<"hi", "gu", "mr", "raj">>

MatchingLanguages(txt) ==
    {n \in 1 .. Len(ClaimedPriority) : PatternMatches(ClaimedPriority[n], txt)}

\* C10: on a text that is not too short, the first language in the order hi,
\* gu, mr, raj with a matching pattern is returned, whatever the routine
\* would guess; the routine is asked only when no pattern matches.
C10_PatternBeforeGuess ==
    (Detected /\ ~TooShort(text)) =>
        IF MatchingLanguages(text) # {}
        THEN /\ detected = ClaimedPriority[SetMin(MatchingLanguages(text))]
             /\ guess = NotCalled
        ELSE guess # NotCalled

\* a text in both scripts, the Gujarati character first
C10_Witness ==
    /\ Detected
    /\ ~TooShort(text)
    /\ PatternMatches("gu", text)
    /\ PatternMatches("hi", text)
    /\ InScriptRange("gu", text[1])
    /\ detected = "hi"

\* a character of the Devanagari block, U+0900 to U+097F
IsDevanagari(ch) == 2304 <= ch /\ ch <= 2431
HasDevanagari(txt) == \E i \in 1 .. Len(txt) : IsDevanagari(txt[i])

\* C29: the pattern pass returns "hi", "gu" or nothing; a text on which a
\* pattern of mr or raj matches holds a Devanagari character, and on every
\* text that holds one the pattern pass returns "hi", which detect_language
\* returns when the text is not too short; detect_language returns "mr" or
\* "raj" only when no pattern matched and the routine guessed that code.
C29_PatternPassIsHindiOrGujarati ==
    Detected =>
        /\ _pattern_based_detection(text) \in {"hi", "gu", None}
        /\ \A lang \in {"mr", "raj"} :
              PatternMatches(lang, text) => HasDevanagari(text)
        /\ HasDevanagari(text) =>
              /\ _pattern_based_detection(text) = "hi"
              /\ ~TooShort(text) => (detected = "hi" /\ guess = NotCalled)
        /\ detected \in {"mr", "raj"} =>
              /\ guess = detected
              /\ _pattern_based_detection(text) = None

\* a text with a signature word of Marathi, detected as Hindi
C29_Witness ==
    /\ Detected
    /\ ~TooShort(text)
    /\ WordPatternMatches("mr", text)
    /\ ~WordPatternMatches("hi", text)
    /\ detected = "hi"

====
